---------------------------- MODULE Spec2Model ----------------------------
(***************************************************************************)
(* Model of src/app.py: the resume extraction pipeline                     *)
(* extract_info_from_pdf (text and link extraction, prompt, generation,    *)
(* first-match JSON extraction, sanitization, JSON parsing, per-field      *)
(* reconciliation `safe`, formatting).                                     *)
(*                                                                         *)
(* A Python str is a sequence of code points (ASCII here): "NA" is         *)
(* <<78, 65>>.  A Python value produced by json.loads is a record with a   *)
(* tag t in {"str", "int", "bool", "null", "list", "dict"}.  A dict is the *)
(* sequence of its items [k, v] in insertion order.                        *)
(***************************************************************************)
EXTENDS Integers, Sequences, FiniteSets, TLC

(***************************************************************************)
(* Bounds of the input universes.                                          *)
(***************************************************************************)
\* trailing pieces appended to a completion after its first block
MaxTrailing == 2
\* pages of a document that carry link annotations
MaxPages == 3
\* characters of a raw text enumerated over EmailAlphabet
MaxTextLen == 5
\* pieces of a model email value enumerated over ShapePieces
MaxValueLen == 5

(***************************************************************************)
(* String literals of src/app.py.                                          *)
(***************************************************************************)
\* "NA"
NA == <<78, 65>>
\* "None"
NoneText == <<78, 111, 110, 101>>
\* "null"
NullText == <<110, 117, 108, 108>>
\* "value"
ValueKey == <<118, 97, 108, 117, 101>>
\* "name"
name == <<110, 97, 109, 101>>
\* "mobile_number"
mobile_number == <<109, 111, 98, 105, 108, 101, 95, 110, 117, 109, 98, 101, 114>>
\* "address"
address == <<97, 100, 100, 114, 101, 115, 115>>
\* "email"
email == <<101, 109, 97, 105, 108>>
\* "linkedin"
linkedin == <<108, 105, 110, 107, 101, 100, 105, 110>>
\* "github"
github == <<103, 105, 116, 104, 117, 98>>
\* "experience_years"
experience_years == <<101, 120, 112, 101, 114, 105, 101, 110, 99, 101, 95, 121, 101, 97, 114, 115>>
\* the schema's properties, in the order of extract_info_function
FieldOrder == <<name, mobile_number, address, email, linkedin, github, experience_years>>
Fields == {FieldOrder[i] : i \in 1..Len(FieldOrder)}
\* "Could not find a JSON block in the model output."
NoJsonMessage == <<67, 111, 117, 108, 100, 32, 110, 111, 116, 32, 102, 105, 110, 100, 32, 97, 32, 74, 83, 79, 78, 32, 98, 108, 111, 99, 107, 32, 105, 110, 32, 116, 104, 101, 32, 109, 111, 100, 101, 108, 32, 111, 117, 116, 112, 117, 116, 46>>
\* "Failed to parse JSON: "
ParseFailedPrefix == <<70, 97, 105, 108, 101, 100, 32, 116, 111, 32, 112, 97, 114, 115, 101, 32, 74, 83, 79, 78, 58, 32>>
\* "\n\nModel Output:\n"
ModelOutputLabel == <<10, 10, 77, 111, 100, 101, 108, 32, 79, 117, 116, 112, 117, 116, 58, 10>>
\* the labels of the f-string `pretty`, each with the line break before it
Labels == <<
    <<78, 97, 109, 101, 58, 32>>,
    <<10, 77, 111, 98, 105, 108, 101, 32, 78, 117, 109, 98, 101, 114, 58, 32>>,
    <<10, 65, 100, 100, 114, 101, 115, 115, 58, 32>>,
    <<10, 69, 109, 97, 105, 108, 58, 32>>,
    <<10, 76, 105, 110, 107, 101, 100, 105, 110, 58, 32>>,
    <<10, 71, 105, 116, 104, 117, 98, 58, 32>>,
    <<10, 69, 120, 112, 101, 114, 105, 101, 110, 99, 101, 32, 89, 101, 97, 114, 115, 58, 32>> >>
\* text[:2000]
PromptLimit == 2000

(***************************************************************************)
(* Python str operations.                                                  *)
(***************************************************************************)
Min(a, b) == IF a < b THEN a ELSE b

\* s[:n]
Take(s, n) == SubSeq(s, 1, Min(n, Len(s)))

\* s[i-1:] with i a 1-based index
Drop(s, i) == SubSeq(s, i, Len(s))

\* needle in hay
Contains(needle, hay) ==
    \E i \in 0..(Len(hay) - Len(needle)) :
        \A k \in 1..Len(needle) : hay[i + k] = needle[k]

\* str.lower() on ASCII
Lower(s) == [i \in 1..Len(s) |-> IF s[i] \in 65..90 THEN s[i] + 32 ELSE s[i]]

\* the ASCII characters str.strip() removes
PyWhitespace == (9..13) \cup (28..32)

\* str.strip()
Strip(s) ==
    LET keep == {i \in 1..Len(s) : s[i] \notin PyWhitespace}
    IN  IF keep = {} THEN <<>>
        ELSE SubSeq(s, CHOOSE i \in keep : \A j \in keep : i <= j,
                       CHOOSE i \in keep : \A j \in keep : j <= i)

RECURSIVE Digits(_)
\* str(n) for n >= 0
Digits(n) == IF n < 10 THEN <<48 + n>> ELSE Digits(n \div 10) \o <<48 + (n % 10)>>

\* str(n) for an int
IntText(n) == IF n < 0 THEN <<45>> \o Digits(0 - n) ELSE Digits(n)

RECURSIVE Join(_)
\* "".join(parts)
Join(parts) == IF parts = <<>> THEN <<>> ELSE Head(parts) \o Join(Tail(parts))

(***************************************************************************)
(* re.finditer(r'\{.*?\}', response, re.DOTALL)  (line 83)                 *)
(***************************************************************************)
\* the character of s at 1-based index i, -1 past either end
CharAt(s, i) == IF i >= 1 /\ i <= Len(s) THEN s[i] ELSE -1

\* the first index >= i of s that holds c, 0 when there is none
IndexFrom(s, c, i) ==
    LET at == {j \in i..Len(s) : s[j] = c}
    IN  IF at = {} THEN 0 ELSE CHOOSE j \in at : \A k \in at : j <= k

RECURSIVE finditer_from(_, _)
\* the non-overlapping matches of \{.*?\} found scanning s from index pos:
\* a match opens at a '{' and, being lazy with DOTALL, closes at the first
\* '}' after it; the scan resumes after the match
finditer_from(s, pos) ==
    LET open  == IndexFrom(s, 123, pos)
        close == IF open = 0 THEN 0 ELSE IndexFrom(s, 125, open + 1)
    IN  IF close = 0 THEN <<>>
        ELSE <<SubSeq(s, open, close)>> \o finditer_from(s, close + 1)

\* json_matches = list(re.finditer(...)), each match as its group()
json_matches(response) == finditer_from(response, 1)

(***************************************************************************)
(* Sanitization  (lines 88-89)                                             *)
(***************************************************************************)
\* [\x00-\x08\x0b\x0c\x0e-\x1f\x7f]
ControlChars == (0..8) \cup {11, 12} \cup (14..31) \cup {127}

\* re.sub(r'[\x00-\x08\x0b\x0c\x0e-\x1f\x7f]', '', s)
StripControl(s) == SelectSeq(s, LAMBDA c : c \notin ControlChars)

\* re.sub(r'\\[nt]', ' ', s): every backslash that an n or a t follows starts
\* a match (no two matches overlap: the second character of a match is no
\* backslash); each match becomes one space
ReplaceEscapedNT(s) ==
    LET starts == {i \in 1..(Len(s) - 1) : s[i] = 92 /\ s[i + 1] \in {110, 116}}
        marked == [i \in 1..Len(s) |->
                      IF i \in starts THEN 32
                      ELSE IF (i - 1) \in starts THEN -1
                      ELSE s[i]]
    IN  SelectSeq(marked, LAMBDA c : c # -1)

\* lines 88-89 applied to the first match
Sanitize(s) == ReplaceEscapedNT(StripControl(s))

(***************************************************************************)
(* json.loads (line 92), strict mode.  Modelled: objects, arrays, strings  *)
(* with their escapes, integers, true, false, null.  Not modelled:         *)
(* fractions and exponents, NaN and Infinity; no completion drawn below    *)
(* contains them.                                                          *)
(***************************************************************************)
StrV(v)  == [t |-> "str", v |-> v]
IntV(n)  == [t |-> "int", v |-> n]
BoolV(b) == [t |-> "bool", v |-> b]
NoneV    == [t |-> "null", v |-> 0]
ListV(v) == [t |-> "list", v |-> v]
DictV(v) == [t |-> "dict", v |-> v]

Fail == [ok |-> FALSE, val |-> NoneV, next |-> 0]
Ok(val, next) == [ok |-> TRUE, val |-> val, next |-> next]

\* json.decoder.WHITESPACE
JsonWs == {32, 9, 10, 13}

RECURSIVE SkipWs(_, _)
\* WHITESPACE.match(s, i).end()
SkipWs(s, i) == IF CharAt(s, i) \in JsonWs THEN SkipWs(s, i + 1) ELSE i

\* json.decoder.BACKSLASH: the character after a backslash and what it decodes to
BACKSLASH == (34 :> 34) @@ (92 :> 92) @@ (47 :> 47) @@ (98 :> 8) @@
             (102 :> 12) @@ (110 :> 10) @@ (114 :> 13) @@ (116 :> 9)

\* json.decoder.STRINGCHUNK: a chunk of a string ends at a quote, a backslash
\* or a control character
ChunkEnds == {34, 92} \cup (0..31)

\* the value of a hexadecimal digit, -1 for any other character
HexValue(c) ==
    IF c \in 48..57 THEN c - 48
    ELSE IF c \in 65..70 THEN c - 55
    ELSE IF c \in 97..102 THEN c - 87
    ELSE -1

\* int(esc, 16) of four hexadecimal digit values, -1 when one is no digit
HexNumber(h) ==
    IF \A k \in 1..4 : h[k] # -1
    THEN 4096 * h[1] + 256 * h[2] + 16 * h[3] + h[4]
    ELSE -1

\* json.decoder._decode_uXXXX: the number the four hexadecimal digits after
\* the 'u' at index pos spell, -1 when they are not four such digits
decode_uXXXX(s, pos) ==
    HexNumber([k \in 1..4 |-> HexValue(CharAt(s, pos + k))])

\* the character a \u escape at index term stands for and the index after
\* it, given the number uni it spells and the number uni2 of the escape at
\* term + 6; a high surrogate takes the low surrogate after it along
SurrogatePair(s, term, uni, uni2) ==
    IF uni = -1 THEN <<-1, 0>>
    ELSE IF ~(/\ uni \in 55296..56319
              /\ CharAt(s, term + 6) = 92
              /\ CharAt(s, term + 7) = 117)
         THEN <<uni, term + 6>>
    ELSE IF uni2 = -1 THEN <<-1, 0>>
    ELSE IF uni2 \in 56320..57343
         THEN <<65536 + 1024 * (uni - 55296) + (uni2 - 56320), term + 12>>
    ELSE <<uni, term + 6>>

\* the character the escape at index term stands for and the index after
\* it, <<-1, 0>> for an invalid escape
Escape(s, term, esc) ==
    IF esc = 117
    THEN SurrogatePair(s, term, decode_uXXXX(s, term + 1),
                       decode_uXXXX(s, term + 7))
    ELSE IF esc \in DOMAIN BACKSLASH THEN <<BACKSLASH[esc], term + 2>>
    ELSE <<-1, 0>>

RECURSIVE scanstring(_, _, _)
RECURSIVE AfterEscape(_, _, _)
\* py_scanstring: the string whose content goes on at index i; acc is what is
\* decoded so far.  Each round takes the chunk up to the next terminator
scanstring(s, i, acc) ==
    LET ends  == {j \in i..Len(s) : s[j] \in ChunkEnds}
        term  == CHOOSE j \in ends : \A k \in ends : j <= k
        chunk == SubSeq(s, i, term - 1)
    IN  IF ends = {} THEN Fail
        ELSE IF s[term] = 34 THEN Ok(acc \o chunk, term + 1)
        ELSE IF s[term] # 92 THEN Fail
        ELSE AfterEscape(s, acc \o chunk, Escape(s, term, CharAt(s, term + 1)))

\* py_scanstring goes on after the escape that decoded to step
AfterEscape(s, acc, step) ==
    IF step[1] = -1 THEN Fail
    ELSE scanstring(s, step[2], acc \o <<step[1]>>)

RECURSIVE DigitsEnd(_, _)
\* the index after the run of digits that starts at i
DigitsEnd(s, i) == IF CharAt(s, i) \in 48..57 THEN DigitsEnd(s, i + 1) ELSE i

RECURSIVE DecValue(_)
\* int(digits)
DecValue(d) ==
    IF d = <<>> THEN 0 ELSE 10 * DecValue(SubSeq(d, 1, Len(d) - 1)) + (d[Len(d)] - 48)

\* json.scanner.NUMBER_RE at index i, integer part: -?(?:0|[1-9]\d*)
match_number(s, i) ==
    LET neg == CharAt(s, i) = 45
        d   == IF neg THEN i + 1 ELSE i
    IN  IF CharAt(s, d) = 48 THEN Ok(IntV(0), d + 1)
        ELSE IF CharAt(s, d) \in 49..57
             THEN LET e == DigitsEnd(s, d)
                      n == DecValue(SubSeq(s, d, e - 1))
                  IN  Ok(IntV(IF neg THEN 0 - n ELSE n), e)
        ELSE Fail

\* s[i:i+len(lit)] == lit
HasPrefixAt(s, i, lit) ==
    i + Len(lit) - 1 <= Len(s) /\ SubSeq(s, i, i + Len(lit) - 1) = lit

RECURSIVE DictSet(_, _, _)
\* d[k] = v on a dict kept as its items in insertion order
DictSet(d, k, v) ==
    IF d = <<>> THEN <<[k |-> k, v |-> v]>>
    ELSE IF d[1].k = k THEN <<[k |-> k, v |-> v]>> \o Tail(d)
    ELSE <<d[1]>> \o DictSet(Tail(d), k, v)

RECURSIVE DictGet(_, _, _)
\* d.get(k, default)
DictGet(d, k, default) ==
    IF d = <<>> THEN default
    ELSE IF d[1].k = k THEN d[1].v
    ELSE DictGet(Tail(d), k, default)

RECURSIVE scan_once(_, _), ObjectMembers(_, _, _), ArrayItems(_, _, _)
\* json.scanner.py_make_scanner._scan_once at index i
scan_once(s, i) ==
    LET c == CharAt(s, i)
    IN  IF c = 34
        THEN LET r == scanstring(s, i + 1, <<>>)
             IN  IF r.ok THEN Ok(StrV(r.val), r.next) ELSE Fail
        ELSE IF c = 123
        THEN \* JSONObject: an empty object, or the first key's quote
             LET j == SkipWs(s, i + 1)
             IN  IF CharAt(s, j) = 125 THEN Ok(DictV(<<>>), j + 1)
                 ELSE IF CharAt(s, j) = 34 THEN ObjectMembers(s, j + 1, <<>>)
                 ELSE Fail
        ELSE IF c = 91
        THEN \* JSONArray: an empty array, or the first item
             LET j == SkipWs(s, i + 1)
             IN  IF CharAt(s, j) = 93 THEN Ok(ListV(<<>>), j + 1)
                 ELSE ArrayItems(s, j, <<>>)
        ELSE IF c = 110 /\ HasPrefixAt(s, i, NullText) THEN Ok(NoneV, i + 4)
        ELSE IF c = 116 /\ HasPrefixAt(s, i, <<116, 114, 117, 101>>) THEN Ok(BoolV(TRUE), i + 4)
        ELSE IF c = 102 /\ HasPrefixAt(s, i, <<102, 97, 108, 115, 101>>) THEN Ok(BoolV(FALSE), i + 5)
        ELSE match_number(s, i)

\* the loop of JSONObject: i is the index after the quote that opens a key
ObjectMembers(s, i, pairs) ==
    LET key == scanstring(s, i, <<>>)
        c   == SkipWs(s, key.next)
        val == scan_once(s, SkipWs(s, c + 1))
        e   == SkipWs(s, val.next)
        q   == SkipWs(s, e + 1)
    IN  IF ~key.ok \/ CharAt(s, c) # 58 THEN Fail
        ELSE IF ~val.ok THEN Fail
        ELSE IF CharAt(s, e) = 125
             THEN Ok(DictV(DictSet(pairs, key.val, val.val)), e + 1)
        ELSE IF CharAt(s, e) = 44 /\ CharAt(s, q) = 34
             THEN ObjectMembers(s, q + 1, DictSet(pairs, key.val, val.val))
        ELSE Fail

\* the loop of JSONArray: i is the index of an item
ArrayItems(s, i, items) ==
    LET val == scan_once(s, i)
        e   == SkipWs(s, val.next)
    IN  IF ~val.ok THEN Fail
        ELSE IF CharAt(s, e) = 93 THEN Ok(ListV(Append(items, val.val)), e + 1)
        ELSE IF CharAt(s, e) = 44 THEN ArrayItems(s, SkipWs(s, e + 1), Append(items, val.val))
        ELSE Fail

\* json.loads(s): one value between optional whitespace, nothing after it
json_loads(s) ==
    LET r == scan_once(s, SkipWs(s, 1))
    IN  IF r.ok /\ SkipWs(s, r.next) = Len(s) + 1 THEN r ELSE Fail

(***************************************************************************)
(* Python values: truth, str() and repr().                                 *)
(***************************************************************************)
\* bool(val): what `not val` (line 100) and `if val` (line 114) test
Truthy(val) ==
    CASE val.t = "str"  -> val.v # <<>>
      [] val.t = "int"  -> val.v # 0
      [] val.t = "bool" -> val.v
      [] val.t = "null" -> FALSE
      [] val.t = "list" -> val.v # <<>>
      [] val.t = "dict" -> val.v # <<>>

\* one hexadecimal digit, lower case
HexDigit(n) == IF n < 10 THEN 48 + n ELSE 87 + n

\* repr() of one character of a str quoted with q
ReprChar(c, q) ==
    IF c = q \/ c = 92 THEN <<92, c>>
    ELSE IF c = 9 THEN <<92, 116>>
    ELSE IF c = 10 THEN <<92, 110>>
    ELSE IF c = 13 THEN <<92, 114>>
    ELSE IF c < 32 \/ c = 127 THEN <<92, 120, HexDigit(c \div 16), HexDigit(c % 16)>>
    ELSE <<c>>

\* repr(s) of a str: single quotes unless s holds one and no double quote
ReprStr(s) ==
    LET hasSingle == \E i \in 1..Len(s) : s[i] = 39
        hasDouble == \E i \in 1..Len(s) : s[i] = 34
        q == IF hasSingle /\ ~hasDouble THEN 34 ELSE 39
    IN  <<q>> \o Join([i \in 1..Len(s) |-> ReprChar(s[i], q)]) \o <<q>>

RECURSIVE JoinComma(_)
\* ", ".join(parts)
JoinComma(parts) ==
    IF parts = <<>> THEN <<>>
    ELSE IF Len(parts) = 1 THEN parts[1]
    ELSE parts[1] \o <<44, 32>> \o JoinComma(Tail(parts))

RECURSIVE PyRepr(_)
\* repr(val)
PyRepr(val) ==
    CASE val.t = "str"  -> ReprStr(val.v)
      [] val.t = "int"  -> IntText(val.v)
      [] val.t = "bool" -> IF val.v THEN <<84, 114, 117, 101>> ELSE <<70, 97, 108, 115, 101>>
      [] val.t = "null" -> NoneText
      [] val.t = "list" ->
            <<91>> \o JoinComma([i \in 1..Len(val.v) |-> PyRepr(val.v[i])]) \o <<93>>
      [] val.t = "dict" ->
            <<123>> \o JoinComma([i \in 1..Len(val.v) |->
                          ReprStr(val.v[i].k) \o <<58, 32>> \o PyRepr(val.v[i].v)])
                    \o <<125>>

\* str(val)
PyStr(val) == IF val.t = "str" THEN val.v ELSE PyRepr(val)

(***************************************************************************)
(* Document signals  (lines 59-67)                                         *)
(***************************************************************************)
RECURSIVE find_profile_url_case_sensitive(_, _)
\* find_profile_url_from_links without the .lower() of line 61
find_profile_url_case_sensitive(links, platform) ==
    IF links = <<>> THEN NA
    ELSE IF Contains(platform, Head(links)) THEN Head(links)
    ELSE find_profile_url_case_sensitive(Tail(links), platform)

RECURSIVE find_profile_url_from_links(_, _)
\* the loop of lines 60-63
find_profile_url_from_links(links, platform) ==
    IF links = <<>> THEN NA
    ELSE IF Contains(platform, Lower(Head(links))) THEN Head(links)
    ELSE find_profile_url_from_links(Tail(links), platform)

Letters == (97..122) \cup (65..90)
DigitChars == 48..57
\* [a-zA-Z0-9_.+-]
LocalChars == Letters \cup DigitChars \cup {95, 46, 43, 45}
\* [a-zA-Z0-9-]
DomainChars == Letters \cup DigitChars \cup {45}
\* [a-zA-Z0-9-.]
TailChars == Letters \cup DigitChars \cup {45, 46}

RECURSIVE RunEnd(_, _, _)
\* the index after the longest run of characters of class that starts at i
RunEnd(s, i, class) == IF CharAt(s, i) \in class THEN RunEnd(s, i + 1, class) ELSE i

\* the pattern of line 66 tried at index i: the index after the match, 0 when
\* it fails.  Each greedy class+ takes its longest run; giving characters
\* back never helps, since '@' is not in the first class nor '.' in the second,
\* so the character after a shorter run is one of the class itself.
email_match_at(s, i) ==
    LET a == RunEnd(s, i, LocalChars)
        d == RunEnd(s, a + 1, DomainChars)
        e == RunEnd(s, d + 1, TailChars)
    IN  IF a > i /\ CharAt(s, a) = 64 /\ d > a + 1 /\ CharAt(s, d) = 46 /\ e > d + 1
        THEN e ELSE 0

\* find_email searching only the part of the text the prompt holds
find_email_in_prompt(text) ==
    LET head   == Take(text, PromptLimit)
        starts == {i \in 1..Len(head) : email_match_at(head, i) # 0}
        first  == CHOOSE i \in starts : \A j \in starts : i <= j
    IN  IF starts = {} THEN NA
        ELSE SubSeq(head, first, email_match_at(head, first) - 1)

\* re.search tries index 1, 2, ... and stops at the first that matches
find_email(text) ==
    LET starts == {i \in 1..Len(text) : email_match_at(text, i) # 0}
        first  == CHOOSE i \in starts : \A j \in starts : i <= j
    IN  IF starts = {} THEN NA
        ELSE SubSeq(text, first, email_match_at(text, first) - 1)

\* the check of line 111 loosened to: holds an '@' and holds a '.'
email_shape_loose(val) ==
    /\ \E i \in 1..Len(val) : val[i] = 64
    /\ \E i \in 1..Len(val) : val[i] = 46

\* re.match(r".+@.+\..+", val) is not None, for a str val: some '@' after at
\* least one character, some '.' at least two places after it, one more
\* character after that '.', and no line feed up to there ('.' excludes it)
email_shape(val) ==
    \E a \in 2..Len(val) : \E d \in (a + 2)..(Len(val) - 1) :
        /\ val[a] = 64
        /\ val[d] = 46
        /\ \A k \in 1..(d + 1) : val[k] # 10

(***************************************************************************)
(* Field reconciliation  (lines 96-114)                                    *)
(***************************************************************************)
Return(v) == [raised |-> FALSE, val |-> v]
\* re.match on a value that is no str raises TypeError
RaiseTypeError == [raised |-> TRUE, val |-> <<>>]

\* val in ["NA", "None", "null"]
IsSentinel(val) == val.t = "str" /\ val.v \in {NA, NoneText, NullText}

\* safe(field), with the variables it closes over as parameters; data is the
\* dict json.loads returned
safe(field, data, links, pdf_text) ==
    LET got == DictGet(data, field, StrV(<<>>))
        val == IF got.t = "dict" THEN DictGet(got.v, ValueKey, StrV(<<>>)) ELSE got
        url == find_profile_url_from_links(links, field)
    IN  IF ~Truthy(val) \/ IsSentinel(val)
        THEN IF field = linkedin \/ field = github THEN Return(url)
             ELSE IF field = email THEN Return(find_email(pdf_text))
             ELSE Return(NA)
        ELSE IF (field = linkedin \/ field = github) /\ url # NA THEN Return(url)
        ELSE IF field = email
             THEN IF val.t # "str" THEN RaiseTypeError
                  ELSE IF email_shape(val.v) THEN Return(val.v)
                  ELSE Return(find_email(pdf_text))
        ELSE Return(IF Truthy(val) THEN Strip(PyStr(val)) ELSE NA)

(***************************************************************************)
(* Link extraction and prompt  (lines 32-57)                               *)
(***************************************************************************)
\* a link annotation of a page: page.get_links() gives dicts that carry a
\* "uri" key (external links) or do not (internal ones)
UriLink(u) == [has_uri |-> TRUE, uri |-> u]
InternalLink == [has_uri |-> FALSE, uri |-> <<>>]

\* lines 52-55 for one page: link.get("uri", "") kept when it is not empty
PageUris(page) ==
    SelectSeq([i \in 1..Len(page) |-> IF page[i].has_uri THEN page[i].uri ELSE <<>>],
              LAMBDA u : u # <<>>)

RECURSIVE extract_pdf_links(_)
\* lines 49-57: doc is the sequence of the document's pages
extract_pdf_links(doc) ==
    IF doc = <<>> THEN <<>>
    ELSE PageUris(Head(doc)) \o extract_pdf_links(Tail(doc))

\* build_extraction_prompt: the parts of the prompt that vary, the schema's
\* properties and the first 2000 characters of the text
build_extraction_prompt(text, schema) ==
    [properties |-> schema, text |-> Take(text, PromptLimit)]

(***************************************************************************)
(* Lines 83-125: from the completion to the returned text.                 *)
(***************************************************************************)
\* str(e) of the exception json.loads raised.  The wording and the position
\* it reports belong to the json library; it is a function of json_str alone.
\* <JSONDecodeError>
str_e == <<60, 74, 83, 79, 78, 68, 101, 99, 111, 100, 101, 69, 114, 114, 111, 114, 62>>

\* the request returned text from the return statement named by kind
Returned(kind, text) == [kind |-> kind, exc |-> "", text |-> text]
\* the request ended with an exception leaving extract_info_from_pdf
Raised(exc) == [kind |-> "raised", exc |-> exc, text |-> <<>>]

NoRecord == <<>>

\* json_matches[-1].group()
last_match(matches) == matches[Len(matches)]

\* json_matches[0].group()
first_match(matches) == matches[1]

\* the f-string of lines 116-124 over the seven values
pretty(vals) == Join([i \in 1..Len(FieldOrder) |-> Labels[i] \o vals[i].val])

\* lines 83-125.  The result, with the intermediate values json_str, data
\* and the seven resolved fields
parse_and_format(response, links, pdf_text) ==
    LET matches == json_matches(response)
        js      == Sanitize(first_match(matches))
        parsed  == json_loads(js)
        vals    == [i \in 1..Len(FieldOrder) |->
                       safe(FieldOrder[i], parsed.val.v, links, pdf_text)]
    IN  IF matches = <<>>
        THEN [json_str |-> <<>>, data |-> Fail, record |-> NoRecord,
              result |-> Returned("no_json", NoJsonMessage)]
        ELSE IF ~parsed.ok
        THEN [json_str |-> js, data |-> Fail, record |-> NoRecord,
              result |-> Returned("parse_failed",
                           ParseFailedPrefix \o str_e \o ModelOutputLabel \o response)]
        ELSE IF parsed.val.t # "dict"
        THEN [json_str |-> js, data |-> parsed, record |-> NoRecord,
              result |-> Raised("AttributeError")]
        ELSE IF \E i \in 1..Len(FieldOrder) : vals[i].raised
        THEN [json_str |-> js, data |-> parsed, record |-> NoRecord,
              result |-> Raised("TypeError")]
        ELSE [json_str |-> js, data |-> parsed,
              record |-> [f \in Fields |->
                            vals[CHOOSE i \in 1..Len(FieldOrder) : FieldOrder[i] = f].val],
              result |-> Returned("record", pretty(vals))]

(***************************************************************************)
(* Inputs: documents and completions.                                      *)
(***************************************************************************)
\* all sequences of at most n elements of S
SeqsUpTo(S, n) == UNION {[1..k -> S] : k \in 0..n}

\* what a completion may hold from its first '{' on: JSON objects of the
\* schema, well formed or not (shown as Python string literals)
Blocks == {
    \* {"name": "Bob"}
    <<123, 34, 110, 97, 109, 101, 34, 58, 32, 34, 66, 111, 98, 34, 125>>,
    \* {"name":"Jane Doe","email":"NA","linkedin":"NA","github":"NA"}
    <<123, 34, 110, 97, 109, 101, 34, 58, 34, 74, 97, 110, 101, 32, 68, 111, 101, 34, 44, 34, 101, 109, 97, 105, 108, 34, 58, 34, 78, 65, 34, 44, 34, 108, 105, 110, 107, 101, 100, 105, 110, 34, 58, 34, 78, 65, 34, 44, 34, 103, 105, 116, 104, 117, 98, 34, 58, 34, 78, 65, 34, 125>>,
    \* {}
    <<123, 125>>,
    \* { "experience_years" : 7 , "mobile_number" : "+1 555" }
    <<123, 32, 34, 101, 120, 112, 101, 114, 105, 101, 110, 99, 101, 95, 121, 101, 97, 114, 115, 34, 32, 58, 32, 55, 32, 44, 32, 34, 109, 111, 98, 105, 108, 101, 95, 110, 117, 109, 98, 101, 114, 34, 32, 58, 32, 34, 43, 49, 32, 53, 53, 53, 34, 32, 125>>,
    \* {"email": 5}
    <<123, 34, 101, 109, 97, 105, 108, 34, 58, 32, 53, 125>>,
    \* {"email": true}
    <<123, 34, 101, 109, 97, 105, 108, 34, 58, 32, 116, 114, 117, 101, 125>>,
    \* {"email": ["a@b.c"]}
    <<123, 34, 101, 109, 97, 105, 108, 34, 58, 32, 91, 34, 97, 64, 98, 46, 99, 34, 93, 125>>,
    \* {"email": null, "name": null, "address": 0, "github": false, "linkedin": []}
    <<123, 34, 101, 109, 97, 105, 108, 34, 58, 32, 110, 117, 108, 108, 44, 32, 34, 110, 97, 109, 101, 34, 58, 32, 110, 117, 108, 108, 44, 32, 34, 97, 100, 100, 114, 101, 115, 115, 34, 58, 32, 48, 44, 32, 34, 103, 105, 116, 104, 117, 98, 34, 58, 32, 102, 97, 108, 115, 101, 44, 32, 34, 108, 105, 110, 107, 101, 100, 105, 110, 34, 58, 32, 91, 93, 125>>,
    \* {"name": " "}
    <<123, 34, 110, 97, 109, 101, 34, 58, 32, 34, 32, 34, 125>>,
    \* {"name": ""}
    <<123, 34, 110, 97, 109, 101, 34, 58, 32, 34, 34, 125>>,
    \* {"mobile_number": "\\t"}
    <<123, 34, 109, 111, 98, 105, 108, 101, 95, 110, 117, 109, 98, 101, 114, 34, 58, 32, 34, 92, 116, 34, 125>>,
    \* {"address": "1 Main St\\nSpringfield"}
    <<123, 34, 97, 100, 100, 114, 101, 115, 115, 34, 58, 32, 34, 49, 32, 77, 97, 105, 110, 32, 83, 116, 92, 110, 83, 112, 114, 105, 110, 103, 102, 105, 101, 108, 100, 34, 125>>,
    \* {"address": "C:\\\\new"}
    <<123, 34, 97, 100, 100, 114, 101, 115, 115, 34, 58, 32, 34, 67, 58, 92, 92, 110, 101, 119, 34, 125>>,
    \* {"name": "Al\\tBo", "address": "C:\\\\temp"}
    <<123, 34, 110, 97, 109, 101, 34, 58, 32, 34, 65, 108, 92, 116, 66, 111, 34, 44, 32, 34, 97, 100, 100, 114, 101, 115, 115, 34, 58, 32, 34, 67, 58, 92, 92, 116, 101, 109, 112, 34, 125>>,
    \* {"name": "Al\x7fBo\\n"}
    <<123, 34, 110, 97, 109, 101, 34, 58, 32, 34, 65, 108, 127, 66, 111, 92, 110, 34, 125>>,
    \* {"name": "Al\x07Bo"}
    <<123, 34, 110, 97, 109, 101, 34, 58, 32, 34, 65, 108, 7, 66, 111, 34, 125>>,
    \* {"name": {"value": "Bob"}}
    <<123, 34, 110, 97, 109, 101, 34, 58, 32, 123, 34, 118, 97, 108, 117, 101, 34, 58, 32, 34, 66, 111, 98, 34, 125, 125>>,
    \* {"name": {"value": "Bob"}
    <<123, 34, 110, 97, 109, 101, 34, 58, 32, 123, 34, 118, 97, 108, 117, 101, 34, 58, 32, 34, 66, 111, 98, 34, 125>>,
    \* {"name": "Bob"
    <<123, 34, 110, 97, 109, 101, 34, 58, 32, 34, 66, 111, 98, 34>>,
    \* {"name": "x", "name": "y"}
    <<123, 34, 110, 97, 109, 101, 34, 58, 32, 34, 120, 34, 44, 32, 34, 110, 97, 109, 101, 34, 58, 32, 34, 121, 34, 125>>,
    \* {"linkedin": "https://linkedin.com/in/m", "github": "None"}
    <<123, 34, 108, 105, 110, 107, 101, 100, 105, 110, 34, 58, 32, 34, 104, 116, 116, 112, 115, 58, 47, 47, 108, 105, 110, 107, 101, 100, 105, 110, 46, 99, 111, 109, 47, 105, 110, 47, 109, 34, 44, 32, 34, 103, 105, 116, 104, 117, 98, 34, 58, 32, 34, 78, 111, 110, 101, 34, 125>>,
    \* {"email": "jane@example.com"}
    <<123, 34, 101, 109, 97, 105, 108, 34, 58, 32, 34, 106, 97, 110, 101, 64, 101, 120, 97, 109, 112, 108, 101, 46, 99, 111, 109, 34, 125>>,
    \* {"email": "not an email"}
    <<123, 34, 101, 109, 97, 105, 108, 34, 58, 32, 34, 110, 111, 116, 32, 97, 110, 32, 101, 109, 97, 105, 108, 34, 125>>,
    \* {"name": ["Bob", 1, "it's"]}
    <<123, 34, 110, 97, 109, 101, 34, 58, 32, 91, 34, 66, 111, 98, 34, 44, 32, 49, 44, 32, 34, 105, 116, 39, 115, 34, 93, 125>>,
    \* {"experience_years": -3}
    <<123, 34, 101, 120, 112, 101, 114, 105, 101, 110, 99, 101, 95, 121, 101, 97, 114, 115, 34, 58, 32, 45, 51, 125>>,
    \* {"name": "Bob",}
    <<123, 34, 110, 97, 109, 101, 34, 58, 32, 34, 66, 111, 98, 34, 44, 125>>,
    \* {name: "Bob"}
    <<123, 110, 97, 109, 101, 58, 32, 34, 66, 111, 98, 34, 125>>,
    \* {"na\\tme": "Bob"}
    <<123, 34, 110, 97, 92, 116, 109, 101, 34, 58, 32, 34, 66, 111, 98, 34, 125>>,
    \* {\n  "name": "Bob",\n  "email": "NA"\n}
    <<123, 10, 32, 32, 34, 110, 97, 109, 101, 34, 58, 32, 34, 66, 111, 98, 34, 44, 10, 32, 32, 34, 101, 109, 97, 105, 108, 34, 58, 32, 34, 78, 65, 34, 10, 125>>
    }

\* what a completion may hold before that
Preambles == {
    \* 
    <<>>,
    \* Here is the result: 
    <<72, 101, 114, 101, 32, 105, 115, 32, 116, 104, 101, 32, 114, 101, 115, 117, 108, 116, 58, 32>>,
    \* Sure} 
    <<83, 117, 114, 101, 125, 32>>
    }

\* what may follow the first block, piece by piece
TrailingPieces == {
    \*  extra text 
    <<32, 101, 120, 116, 114, 97, 32, 116, 101, 120, 116, 32>>,
    \* {"name":"Alice"}
    <<123, 34, 110, 97, 109, 101, 34, 58, 34, 65, 108, 105, 99, 101, 34, 125>>,
    \* }
    <<125>>
    }

\* completions with no '{' that a '}' follows
BlocklessCompletions == {
    \* 
    <<>>,
    \* I could not read the resume.
    <<73, 32, 99, 111, 117, 108, 100, 32, 110, 111, 116, 32, 114, 101, 97, 100, 32, 116, 104, 101, 32, 114, 101, 115, 117, 109, 101, 46>>,
    \* name = Bob }{
    <<110, 97, 109, 101, 32, 61, 32, 66, 111, 98, 32, 125, 123>>
    }

\* completions that differ in what they give for linkedin and github
LinkBlocks == {
    \* {"name": "Bob"}
    <<123, 34, 110, 97, 109, 101, 34, 58, 32, 34, 66, 111, 98, 34, 125>>,
    \* {"linkedin": "NA", "github": "NA"}
    <<123, 34, 108, 105, 110, 107, 101, 100, 105, 110, 34, 58, 32, 34, 78, 65, 34, 44, 32, 34, 103, 105, 116, 104, 117, 98, 34, 58, 32, 34, 78, 65, 34, 125>>,
    \* {"linkedin": "https://linkedin.com/in/model", "github": "https://github.com/model"}
    <<123, 34, 108, 105, 110, 107, 101, 100, 105, 110, 34, 58, 32, 34, 104, 116, 116, 112, 115, 58, 47, 47, 108, 105, 110, 107, 101, 100, 105, 110, 46, 99, 111, 109, 47, 105, 110, 47, 109, 111, 100, 101, 108, 34, 44, 32, 34, 103, 105, 116, 104, 117, 98, 34, 58, 32, 34, 104, 116, 116, 112, 115, 58, 47, 47, 103, 105, 116, 104, 117, 98, 46, 99, 111, 109, 47, 109, 111, 100, 101, 108, 34, 125>>,
    \* {"linkedin": "", "github": "https://github.com/model"}
    <<123, 34, 108, 105, 110, 107, 101, 100, 105, 110, 34, 58, 32, 34, 34, 44, 32, 34, 103, 105, 116, 104, 117, 98, 34, 58, 32, 34, 104, 116, 116, 112, 115, 58, 47, 47, 103, 105, 116, 104, 117, 98, 46, 99, 111, 109, 47, 109, 111, 100, 101, 108, 34, 125>>,
    \* {"linkedin": "https://linkedin.com/in/model", "github": "null"}
    <<123, 34, 108, 105, 110, 107, 101, 100, 105, 110, 34, 58, 32, 34, 104, 116, 116, 112, 115, 58, 47, 47, 108, 105, 110, 107, 101, 100, 105, 110, 46, 99, 111, 109, 47, 105, 110, 47, 109, 111, 100, 101, 108, 34, 44, 32, 34, 103, 105, 116, 104, 117, 98, 34, 58, 32, 34, 110, 117, 108, 108, 34, 125>>,
    \* {"linkedin": 5, "github": ["x"]}
    <<123, 34, 108, 105, 110, 107, 101, 100, 105, 110, 34, 58, 32, 53, 44, 32, 34, 103, 105, 116, 104, 117, 98, 34, 58, 32, 91, 34, 120, 34, 93, 125>>,
    \* {"linkedin": "None", "github": " "}
    <<123, 34, 108, 105, 110, 107, 101, 100, 105, 110, 34, 58, 32, 34, 78, 111, 110, 101, 34, 44, 32, 34, 103, 105, 116, 104, 117, 98, 34, 58, 32, 34, 32, 34, 125>>
    }

\* completions that differ in what they give for email
EmailBlocks == {
    \* {"name": "Bob"}
    <<123, 34, 110, 97, 109, 101, 34, 58, 32, 34, 66, 111, 98, 34, 125>>,
    \* {"email": "NA"}
    <<123, 34, 101, 109, 97, 105, 108, 34, 58, 32, 34, 78, 65, 34, 125>>,
    \* {"email": ""}
    <<123, 34, 101, 109, 97, 105, 108, 34, 58, 32, 34, 34, 125>>,
    \* {"email": "None"}
    <<123, 34, 101, 109, 97, 105, 108, 34, 58, 32, 34, 78, 111, 110, 101, 34, 125>>,
    \* {"email": "null"}
    <<123, 34, 101, 109, 97, 105, 108, 34, 58, 32, 34, 110, 117, 108, 108, 34, 125>>,
    \* {"email": "m@m.m"}
    <<123, 34, 101, 109, 97, 105, 108, 34, 58, 32, 34, 109, 64, 109, 46, 109, 34, 125>>,
    \* {"email": "see cv"}
    <<123, 34, 101, 109, 97, 105, 108, 34, 58, 32, 34, 115, 101, 101, 32, 99, 118, 34, 125>>
    }

\* link targets
\* https://www.LinkedIn.com/in/A
UriLinkedInA == <<104, 116, 116, 112, 115, 58, 47, 47, 119, 119, 119, 46, 76, 105, 110, 107, 101, 100, 73, 110, 46, 99, 111, 109, 47, 105, 110, 47, 65>>
\* https://linkedin.com/in/b
UriLinkedInB == <<104, 116, 116, 112, 115, 58, 47, 47, 108, 105, 110, 107, 101, 100, 105, 110, 46, 99, 111, 109, 47, 105, 110, 47, 98>>
\* https://github.com/c
UriGithubC == <<104, 116, 116, 112, 115, 58, 47, 47, 103, 105, 116, 104, 117, 98, 46, 99, 111, 109, 47, 99>>
\* http://x.org
UriOther == <<104, 116, 116, 112, 58, 47, 47, 120, 46, 111, 114, 103>>
\* https://GITHUB.io/linkedin
UriGithubIo == <<104, 116, 116, 112, 115, 58, 47, 47, 71, 73, 84, 72, 85, 66, 46, 105, 111, 47, 108, 105, 110, 107, 101, 100, 105, 110>>
\* mailto:d@e.f
UriMailto == <<109, 97, 105, 108, 116, 111, 58, 100, 64, 101, 46, 102>>

\* Contact: jane@example.com
TextA == <<67, 111, 110, 116, 97, 99, 116, 58, 32, 106, 97, 110, 101, 64, 101, 120, 97, 109, 112, 108, 101, 46, 99, 111, 109>>
\* Jane Doe, engineer
TextB == <<74, 97, 110, 101, 32, 68, 111, 101, 44, 32, 101, 110, 103, 105, 110, 101, 101, 114>>
\*  reach me at bob@x.io or b@y.z
TextTail == <<32, 114, 101, 97, 99, 104, 32, 109, 101, 32, 97, 116, 32, 98, 111, 98, 64, 120, 46, 105, 111, 32, 111, 114, 32, 98, 64, 121, 46, 122>>
\* ann@a.org 
TextHead == <<97, 110, 110, 64, 97, 46, 111, 114, 103, 32>>

\* {"email": "
EmailOpen == <<123, 34, 101, 109, 97, 105, 108, 34, 58, 32, 34>>
\* "}
BlockClose == <<34, 125>>

\* raw texts of the general specification
Texts == {<<>>, TextA, TextB}

\* the text of a document whose first PromptLimit characters are blank
Padding == [i \in 1..PromptLimit |-> 32]

\* pages: the link annotations of one page, in page order
Pages == {
    <<>>,
    <<UriLink(UriLinkedInA)>>,
    <<UriLink(UriGithubC),
      UriLink(UriLinkedInB)>>,
    <<InternalLink, UriLink(UriOther)>>,
    <<UriLink(UriGithubIo)>>,
    <<UriLink(<<>>), UriLink(UriMailto)>>
    }

\* documents of the general specification
Docs == {<<>>, <<<<UriLink(UriGithubC)>>>>}

\* documents of at most MaxPages pages
PagedDocs == SeqsUpTo(Pages, MaxPages)

\* completions of the general specification
Completions ==
    {pre \o b \o Join(tr) :
        pre \in Preambles, b \in Blocks, tr \in SeqsUpTo(TrailingPieces, MaxTrailing)}
    \cup BlocklessCompletions

\* a, @, ., +, space
EmailAlphabet == {97, 64, 46, 43, 32}

\* raw texts up to MaxTextLen characters, and two that are longer than the
\* prompt's share
EmailTexts ==
    SeqsUpTo(EmailAlphabet, MaxTextLen)
    \cup {Padding \o TextTail, TextHead \o Padding \o TextTail}

\* what a model email value is made of: a, @, ., and \u000a, the escape of a
\* line feed that sanitization leaves alone
ShapePieces == {<<97>>, <<64>>, <<46>>, <<92, 117, 48, 48, 48, 97>>}

\* completions whose email is each string of 1..MaxValueLen pieces, or a
\* value that is no string
ShapeCompletions ==
    {EmailOpen \o Join(v) \o BlockClose :
        v \in SeqsUpTo(ShapePieces, MaxValueLen) \ {<<>>}}
    \cup {b \in Blocks : Contains(email, b)}

(***************************************************************************)
(* State and actions: one request of extract_info_from_pdf.                *)
(***************************************************************************)
VARIABLES
    pc,                 \* the next external call of the request, or "done"
    pdf_text,           \* line 70
    links,              \* line 71
    extraction_prompt,  \* line 73
    response,           \* line 74
    json_str,           \* line 89
    data,               \* line 92
    record,             \* the seven values safe() gave, by field
    result              \* what the request gave back to its caller

vars == <<pc, pdf_text, links, extraction_prompt, response, json_str, data,
          record, result>>

NoPrompt == [properties |-> <<>>, text |-> <<>>]
NoResult == [kind |-> "", exc |-> "", text |-> <<>>]

Init ==
    /\ pc = "extract_text"
    /\ pdf_text = <<>>
    /\ links = <<>>
    /\ extraction_prompt = NoPrompt
    /\ response = <<>>
    /\ json_str = <<>>
    /\ data = Fail
    /\ record = NoRecord
    /\ result = NoResult

\* line 70: pdfminer reads the file
ExtractText(T) ==
    /\ pc = "extract_text"
    /\ \E t \in T : pdf_text' = t
    /\ pc' = "extract_links"
    /\ UNCHANGED <<links, extraction_prompt, response, json_str, data, record, result>>

\* line 70: pdfminer cannot read the file and raises; nothing catches it
ExtractTextRaises ==
    /\ pc = "extract_text"
    /\ pc' = "done"
    /\ result' = Raised("DocumentReadError")
    /\ UNCHANGED <<pdf_text, links, extraction_prompt, response, json_str, data, record>>

\* lines 71-73: PyMuPDF opens the file, the links are gathered, the prompt built
ExtractPdfLinks(D) ==
    /\ pc = "extract_links"
    /\ \E doc \in D : links' = extract_pdf_links(doc)
    /\ extraction_prompt' = build_extraction_prompt(pdf_text, FieldOrder)
    /\ pc' = "text_generation"
    /\ UNCHANGED <<pdf_text, response, json_str, data, record, result>>

\* line 50: fitz.open raises; nothing catches it
ExtractPdfLinksRaises ==
    /\ pc = "extract_links"
    /\ pc' = "done"
    /\ result' = Raised("DocumentReadError")
    /\ UNCHANGED <<pdf_text, links, extraction_prompt, response, json_str, data, record>>

\* lines 74-125: the backend answers and the rest of the function runs
TextGeneration(R) ==
    /\ pc = "text_generation"
    /\ \E r \in R :
          LET out == parse_and_format(r, links, pdf_text)
          IN  /\ response' = r
              /\ json_str' = out.json_str
              /\ data' = out.data
              /\ record' = out.record
              /\ result' = out.result
    /\ pc' = "done"
    /\ UNCHANGED <<pdf_text, links, extraction_prompt>>

\* lines 74-81: the backend call raises; nothing catches it
TextGenerationRaises ==
    /\ pc = "text_generation"
    /\ pc' = "done"
    /\ result' = Raised("BackendError")
    /\ UNCHANGED <<pdf_text, links, extraction_prompt, response, json_str, data, record>>

\* lines 127-134: the interface takes the next upload; a request shares no
\* state with the one before it
NextRequest ==
    /\ pc = "done"
    /\ pc' = "extract_text"
    /\ pdf_text' = <<>>
    /\ links' = <<>>
    /\ extraction_prompt' = NoPrompt
    /\ response' = <<>>
    /\ json_str' = <<>>
    /\ data' = Fail
    /\ record' = NoRecord
    /\ result' = NoResult

Request(T, D, R) ==
    \/ ExtractText(T)
    \/ ExtractTextRaises
    \/ ExtractPdfLinks(D)
    \/ ExtractPdfLinksRaises
    \/ TextGeneration(R)
    \/ TextGenerationRaises
    \/ NextRequest

Next == Request(Texts, Docs, Completions)
NextLinks == Request({TextA}, PagedDocs, LinkBlocks)
NextEmail == Request(EmailTexts, {<<>>}, EmailBlocks)
NextShape == Request(Texts, {<<>>}, ShapeCompletions)

\* completions of every shape over a few documents
Spec == Init /\ [][Next]_vars
\* documents of every link layout
SpecLinks == Init /\ [][NextLinks]_vars
\* raw texts of every content
SpecEmail == Init /\ [][NextEmail]_vars
\* model email values of every content
SpecShape == Init /\ [][NextShape]_vars

(***************************************************************************)
(* Properties.                                                             *)
(***************************************************************************)
\* the request is over and the backend had answered
Answered ==
    /\ pc = "done"
    /\ \/ result.kind \in {"no_json", "parse_failed", "record"}
       \/ result.exc \in {"TypeError", "AttributeError"}

\* the request returned the seven lines
Succeeded == pc = "done" /\ result.kind = "record"

\* what the parsed object gives for a field, a nested {"value": ...} unwrapped
ModelValue(field) ==
    LET got == DictGet(data.val.v, field, StrV(<<>>))
    IN  IF got.t = "dict" THEN DictGet(got.v, ValueKey, StrV(<<>>)) ELSE got

\* the parsed object has the key
HasKey(field) == \E i \in 1..Len(data.val.v) : data.val.v[i].k = field

\* the least element of a non-empty set of integers
Least(S) == CHOOSE i \in S : \A j \in S : i <= j
\* the greatest element of a non-empty set of integers
Greatest(S) == CHOOSE i \in S : \A j \in S : j <= i

\* ---- C1 ----------------------------------------------------------------
\* C1: once the completion has parsed, resolving each of the seven fields
\* completes without raising (and so yields a string).
C1_ReconciliationTotal ==
    (pc = "done" /\ data.ok) =>
        \A f \in Fields : ~safe(f, data.val.v, links, pdf_text).raised

\* ---- C2 ----------------------------------------------------------------
\* the indexes of the links whose lower-cased form contains the platform name
PlatformHits(platform) ==
    {i \in 1..Len(links) : Contains(platform, Lower(links[i]))}

\* C2: in a successful record, when some link's lower-cased form contains
\* "linkedin" (resp. "github"), that field is the first such link in list
\* order, whatever the model gave for it.
C2_LinkOverridesModel ==
    Succeeded =>
        \A platform \in {linkedin, github} :
            PlatformHits(platform) # {} =>
                record[platform] = links[Least(PlatformHits(platform))]

\* C2 witness: the model gave a profile URL of its own, two links of the
\* document name the platform, the first of them only in another case, and
\* the record holds that first link.
C2_Witness ==
    /\ Succeeded
    /\ ModelValue(linkedin).t = "str"
    /\ Contains(linkedin, ModelValue(linkedin).v)
    /\ Cardinality(PlatformHits(linkedin)) >= 2
    /\ ~Contains(linkedin, links[Least(PlatformHits(linkedin))])
    /\ record[linkedin] = links[Least(PlatformHits(linkedin))]
    /\ record[linkedin] # ModelValue(linkedin).v

\* ---- C3 ----------------------------------------------------------------
\* the indexes a of text that hold the '@' of a match of the email pattern:
\* a character of the first class before it, then a non-empty run of the
\* second class up to a '.', then a character of the third class
EmailAts(text) ==
    {a \in 2..Len(text) :
        /\ text[a] = 64
        /\ text[a - 1] \in LocalChars
        /\ \E d \in (a + 2)..(Len(text) - 1) :
              /\ text[d] = 46
              /\ \A k \in (a + 1)..(d - 1) : text[k] \in DomainChars
              /\ text[d + 1] \in TailChars}

\* the first match of the email pattern in text, stated from its '@': the
\* leftmost such '@', with the whole run of the first class before it and
\* the whole run of the third class after its '.'; "NA" when there is none
FirstEmail(text) ==
    LET a == Least(EmailAts(text))
        s == Least({i \in 1..(a - 1) : \A k \in i..(a - 1) : text[k] \in LocalChars})
        d == Least({j \in (a + 2)..Len(text) : text[j] = 46})
        e == Greatest({j \in (d + 1)..Len(text) :
                          \A k \in (d + 1)..j : text[k] \in TailChars})
    IN  IF EmailAts(text) = {} THEN NA ELSE SubSeq(text, s, e)

\* the model's email is missing: no key, the empty string, or a sentinel
EmailMissing ==
    \/ ~HasKey(email)
    \/ /\ ModelValue(email).t = "str"
       /\ ModelValue(email).v \in {<<>>, NA, NoneText, NullText}

\* C3: when the model's email is missing, the final email is the first match
\* of the email pattern over the whole raw text, "NA" when there is none.
C3_MissingEmailFallsBack ==
    (Succeeded /\ EmailMissing) => record[email] = FirstEmail(pdf_text)

\* C3 witness: the model gave "NA", and the email of the record lies in the
\* text beyond the first PromptLimit characters, so the prompt never held it.
C3_Witness ==
    /\ Succeeded
    /\ HasKey(email)
    /\ ModelValue(email) = StrV(NA)
    /\ Len(pdf_text) > PromptLimit
    /\ record[email] # NA
    /\ ~Contains(record[email], extraction_prompt.text)
    /\ Contains(record[email], Drop(pdf_text, PromptLimit + 1))

\* ---- C4 ----------------------------------------------------------------
\* the completion holds a '{' with a '}' after it
HasBlock == \E i \in 1..Len(response) : \E j \in (i + 1)..Len(response) :
                response[i] = 123 /\ response[j] = 125
\* the index of the first '{'
BlockStart == Least({i \in 1..Len(response) : response[i] = 123})
\* the index of the first '}' after it
BlockEnd == Least({j \in (BlockStart + 1)..Len(response) : response[j] = 125})
\* what the request gives when the completion is cut after its first block
CutAfterBlock == parse_and_format(SubSeq(response, 1, BlockEnd), links, pdf_text)

\* C4 as stated: what is sanitized and parsed is the text from the first '{'
\* to the first '}' after it, and what follows it never changes the outcome
\* of the request.
C4_TrailingTextNeverMatters ==
    (Answered /\ HasBlock) =>
        /\ json_str = Sanitize(SubSeq(response, BlockStart, BlockEnd))
        /\ result = CutAfterBlock.result

\* C4 amended: what is sanitized and parsed is the text from the first '{' to
\* the first '}' after it; what follows it never changes the parsed object,
\* the resolved fields, the kind of outcome or any returned text but one:
\* the text of a JSON parse failure quotes the whole completion.
C4_FirstMatchWins ==
    (Answered /\ HasBlock) =>
        /\ json_str = Sanitize(SubSeq(response, BlockStart, BlockEnd))
        /\ data = CutAfterBlock.data
        /\ record = CutAfterBlock.record
        /\ result.kind = CutAfterBlock.result.kind
        /\ result.exc = CutAfterBlock.result.exc
        /\ (result.kind # "parse_failed" => result.text = CutAfterBlock.result.text)
        /\ (result.kind = "parse_failed" =>
              result.text = ParseFailedPrefix \o str_e \o ModelOutputLabel \o response)

\* C4 witness: a record was built from the first block of a completion that
\* holds a second, different block after it.
C4_Witness ==
    /\ Succeeded
    /\ Len(json_matches(response)) >= 2
    /\ json_matches(response)[2] # json_matches(response)[1]
    /\ json_loads(Sanitize(json_matches(response)[2])).ok
    /\ record[name] \notin {NA, <<>>}
    /\ record[name] # DictGet(json_loads(Sanitize(json_matches(response)[2])).val.v,
                             name, StrV(NA)).v

\* ---- C5 ----------------------------------------------------------------
\* C5: every request ends by returning text; no exception leaves
\* extract_info_from_pdf.
C5_NoExceptionEscapes == pc = "done" => result.kind # "raised"

\* ---- C6 ----------------------------------------------------------------
\* s with each line feed and tab replaced by a space
Spaced(s) == [i \in 1..Len(s) |-> IF s[i] \in {9, 10} THEN 32 ELSE s[i]]

\* C6: when the first block is valid JSON free of control characters and one
\* of its string values holds an escaped n or t, the sanitized block parses
\* and each string value is the original with those escapes turned to spaces.
C6_SanitizeRoundTrip ==
    (Answered /\ HasBlock) =>
        LET block == SubSeq(response, BlockStart, BlockEnd)
            orig  == json_loads(block)
            items == orig.val.v
        IN  ( /\ orig.ok
              /\ StripControl(block) = block
              /\ \E i \in 1..Len(items) :
                    /\ items[i].v.t = "str"
                    /\ \E k \in 1..Len(items[i].v.v) : items[i].v.v[k] \in {9, 10} )
            => /\ data.ok
               /\ \A i \in 1..Len(items) :
                     items[i].v.t = "str" =>
                        ModelValue(items[i].k) = StrV(Spaced(items[i].v.v))

\* ---- C7 ----------------------------------------------------------------
\* C7: the text returned when the completion holds no block includes the
\* completion.
C7_NoJsonTextCarriesCompletion ==
    (pc = "done" /\ result.kind = "no_json") => Contains(response, result.text)

\* ---- C8 ----------------------------------------------------------------
\* C8: in a successful output every field shows a non-empty value or "NA",
\* never an empty value.
C8_NoEmptyValue ==
    Succeeded => \A f \in Fields : record[f] # <<>>

\* ---- C9 ----------------------------------------------------------------
\* the model's email is present: truthy and no sentinel
EmailPresent == data.ok /\ Truthy(ModelValue(email)) /\ ~IsSentinel(ModelValue(email))

\* C9 as stated: a present email value is kept when it contains both "@" and
\* ".", and otherwise the final email is the regex search over the raw text.
C9_LooseShapeCheck ==
    (Succeeded /\ EmailPresent /\ ModelValue(email).t = "str") =>
        record[email] =
            IF /\ \E i \in 1..Len(ModelValue(email).v) : ModelValue(email).v[i] = 64
               /\ \E i \in 1..Len(ModelValue(email).v) : ModelValue(email).v[i] = 46
            THEN ModelValue(email).v
            ELSE FirstEmail(pdf_text)

\* v, up to its first line feed, holds an '@' after at least one character
\* and a '.' at least two places after that '@' and before the last character
ShapedLikeEmail(v) ==
    LET feeds == {i \in 1..Len(v) : v[i] = 10}
        stop  == IF feeds = {} THEN Len(v) + 1 ELSE Least(feeds)
    IN  \E a \in 2..(stop - 1) :
            v[a] = 64 /\ \E d \in (a + 2)..(stop - 2) : v[d] = 46

\* C9 amended: a present email value that is a string is kept when it matches
\* .+@.+\..+ from its start (an "@" after at least one character, a "." at
\* least two places after it, one more character after that ".", no line
\* feed up to there), and otherwise the final email is the regex search over
\* the raw text; a present value that is no string ends the request with a
\* TypeError.
C9_EmailShapeDecides ==
    (Answered /\ EmailPresent) =>
        IF ModelValue(email).t = "str"
        THEN /\ result.kind = "record"
             /\ record[email] = IF ShapedLikeEmail(ModelValue(email).v)
                                THEN ModelValue(email).v
                                ELSE FirstEmail(pdf_text)
        ELSE result.kind = "raised" /\ result.exc = "TypeError"

\* C9 witness: the model's email holds "@" and "." and yet is replaced by the
\* address found in the raw text.
C9_Witness ==
    /\ Succeeded
    /\ EmailPresent
    /\ ModelValue(email).t = "str"
    /\ \E i \in 1..Len(ModelValue(email).v) : ModelValue(email).v[i] = 64
    /\ \E i \in 1..Len(ModelValue(email).v) : ModelValue(email).v[i] = 46
    /\ record[email] # ModelValue(email).v
    /\ record[email] # NA
    /\ record[email] = FirstEmail(pdf_text)

\* ---- C10 ---------------------------------------------------------------
\* the JSON value that starts at the first '{' of the completion
FirstObject == scan_once(response, BlockStart)

\* the fields that object gives as a nested {"value": v} with v a string
NestedFields ==
    {f \in Fields :
        LET got == DictGet(FirstObject.val.v, f, NoneV)
        IN  got.t = "dict" /\ DictGet(got.v, ValueKey, NoneV).t = "str"}

\* C10: when the first JSON object of the completion gives a field as
\* {"value": v}, the request parses it and resolves the field as it would
\* the plain string v.
C10_NestedValueResolved ==
    (Answered /\ HasBlock /\ FirstObject.ok /\ NestedFields # {}) =>
        /\ result.kind = "record"
        /\ \A f \in NestedFields :
              LET v == DictGet(DictGet(FirstObject.val.v, f, NoneV).v, ValueKey, NoneV)
              IN  record[f] = safe(f, DictSet(FirstObject.val.v, f, v), links, pdf_text).val
=============================================================================
